---- MODULE Spec2Model ----
(***************************************************************************)
(* State-machine model of app.py (AirQualityFetcher): the city catalog     *)
(* file, the fuzzy matcher, the daily-AQI reconciliation, the retrying     *)
(* fetch get_air_quality_data and the two handlers that call it.           *)
(*                                                                         *)
(* Strings are sequences of one-character strings, so that lower(),        *)
(* startswith, substring search and SequenceMatcher.ratio() are computed   *)
(* character by character.  Scores are exact rationals [n, d] (n/d).       *)
(***************************************************************************)
EXTENDS Integers, Sequences, FiniteSets, TLC

VARIABLES
    db_file,        \* cities_database.json: [state, records]
    ret,            \* the last direct call of a catalog/matcher function and what it returned
    fetch,          \* the running get_air_quality_data call (its locals and position)
    handler         \* the running request handler (its locals and position)

vars == <<db_file, ret, fetch, handler>>

\* ------------------------------------------------------------------ bounds

MaxCatalog == 3         \* records the catalog file may hold
MaxLimit == 3           \* largest limit passed to find_best_matches directly
MaxRetriesArg == 4      \* largest max_retries passed to get_air_quality_data directly
MaxHistory == 2         \* history readings in a payload
MaxForecast == 2        \* forecast days in a payload

\* ------------------------------------------------------------------ strings

\* str.lower() on one character
LowerCh(ch) ==
    CASE ch = "A" -> "a"
      [] ch = "B" -> "b"
      [] ch = "S" -> "s"
      [] OTHER -> ch

\* str.lower()
Lower(s) == [i \in 1..Len(s) |-> LowerCh(s[i])]

\* str.startswith
StartsWith(s, p) == Len(p) <= Len(s) /\ SubSeq(s, 1, Len(p)) = p

\* p in s
Contains(s, p) ==
    \E i \in 0..(Len(s) - Len(p)) : SubSeq(s, i + 1, i + Len(p)) = p

\* f"{city}, {state}, {country}".lower()
SearchString(city, state, country) ==
    Lower(city \o <<",", " ">> \o state \o <<",", " ">> \o country)

\* the city_entry dict of add_city_to_database
CityEntry(city, state, country) ==
    [city |-> city, state |-> state, country |-> country,
     search_string |-> SearchString(city, state, country)]

\* ------------------------------------------------------------------ catalog file

\* load_cities_database: [] when the file is missing or does not decode
load_cities_database(file) ==
    IF file.state = "json" THEN file.records ELSE <<>>

\* save_cities_database: overwrite the file
save_cities_database(cities_db) == [state |-> "json", records |-> cities_db]

\* the `exists = any(...)` test of add_city_to_database, compared case-sensitively
ExistsCaseSensitive(cities_db, city, state, country) ==
    \E i \in 1..Len(cities_db) :
        /\ cities_db[i].city = city
        /\ cities_db[i].state = state
        /\ cities_db[i].country = country

\* the `exists = any(...)` test of add_city_to_database
Exists(cities_db, city, state, country) ==
    \E i \in 1..Len(cities_db) :
        /\ Lower(cities_db[i].city) = Lower(city)
        /\ Lower(cities_db[i].state) = Lower(state)
        /\ Lower(cities_db[i].country) = Lower(country)

\* the file add_city_to_database leaves behind
AddedFile(file, city, state, country) ==
    LET cities_db == load_cities_database(file) IN
    IF ~Exists(cities_db, city, state, country)
        THEN save_cities_database(Append(cities_db, CityEntry(city, state, country)))
        ELSE file

\* ------------------------------------------------------------------ similarity

\* length of the common run of a[i+1..ahi] and b[j+1..bhi] (0-based, half-open)
RECURSIVE RunLen(_, _, _, _, _, _)
RunLen(a, b, i, j, ahi, bhi) ==
    IF i < ahi /\ j < bhi /\ a[i + 1] = b[j + 1]
        THEN 1 + RunLen(a, b, i + 1, j + 1, ahi, bhi)
        ELSE 0

\* SequenceMatcher.find_longest_match: the longest block, of those the earliest
\* in a, of those the earliest in b; <<alo, blo, 0>> when nothing matches
LongestMatch(a, b, alo, ahi, blo, bhi) ==
    LET Cands == {<<i, j, RunLen(a, b, i, j, ahi, bhi)>> :
                    i \in alo..(ahi - 1), j \in blo..(bhi - 1)}
        Good == {c \in Cands : c[3] > 0}
        Before(c, d) ==
            \/ c[3] > d[3]
            \/ c[3] = d[3] /\ c[1] < d[1]
            \/ c[3] = d[3] /\ c[1] = d[1] /\ c[2] <= d[2]
    IN  IF Good = {} THEN <<alo, blo, 0>>
        ELSE CHOOSE c \in Good : \A d \in Good : Before(c, d)

\* sum of the sizes of SequenceMatcher.get_matching_blocks
RECURSIVE MatchTotal(_, _, _, _, _, _)
MatchTotal(a, b, alo, ahi, blo, bhi) ==
    LET m == LongestMatch(a, b, alo, ahi, blo, bhi)
        i == m[1]
        j == m[2]
        k == m[3]
    IN  IF k = 0 THEN 0
        ELSE k
             + (IF alo < i /\ blo < j THEN MatchTotal(a, b, alo, i, blo, j) ELSE 0)
             + (IF i + k < ahi /\ j + k < bhi
                    THEN MatchTotal(a, b, i + k, ahi, j + k, bhi) ELSE 0)

\* SequenceMatcher(None, a.lower(), b.lower()).ratio() = 2*M/T, 1.0 when T = 0
similarity_score(a, b) ==
    LET la == Lower(a)
        lb == Lower(b)
        T == Len(la) + Len(lb)
    IN  IF T = 0 THEN [n |-> 1, d |-> 1]
        ELSE [n |-> 2 * MatchTotal(la, lb, 0, Len(la), 0, Len(lb)), d |-> T]

\* arithmetic and order on scores
Plus1(x) == [n |-> x.n + x.d, d |-> x.d]
Plus08(x) == [n |-> 5 * x.n + 4 * x.d, d |-> 5 * x.d]
ScoreLess(x, y) == x.n * y.d < y.n * x.d
ScoreEq(x, y) == x.n * y.d = y.n * x.d
AboveThreshold(x) == 10 * x.n > 3 * x.d

\* ------------------------------------------------------------------ matcher

\* the score find_best_matches gives one city_entry
Score(query, city_entry) ==
    LET query_lower == Lower(query) IN
    IF StartsWith(Lower(city_entry.city), query_lower)
        THEN Plus1(similarity_score(query, city_entry.city))
    ELSE IF Contains(city_entry.search_string, query_lower)
        THEN Plus08(similarity_score(query, city_entry.search_string))
    ELSE similarity_score(query, city_entry.search_string)

\* scored_cities: one (score, city_entry) pair per record, in catalog order
ScoredCities(cities_db, query) ==
    [i \in 1..Len(cities_db) |->
        [score |-> Score(query, cities_db[i]), city |-> cities_db[i]]]

\* where list.sort puts x in an already sorted list when reverse=True is left out
RECURSIVE InsertAscending(_, _)
InsertAscending(sorted, x) ==
    IF sorted = <<>> THEN <<x>>
    ELSE IF ScoreLess(x.score, Head(sorted).score) THEN <<x>> \o sorted
    ELSE <<Head(sorted)>> \o InsertAscending(Tail(sorted), x)

\* where list.sort(key=score, reverse=True) puts x in an already sorted list:
\* behind every pair whose score is at least x's (the sort is stable)
RECURSIVE InsertSorted(_, _)
InsertSorted(sorted, x) ==
    IF sorted = <<>> THEN <<x>>
    ELSE IF ScoreLess(Head(sorted).score, x.score) THEN <<x>> \o sorted
    ELSE <<Head(sorted)>> \o InsertSorted(Tail(sorted), x)

\* scored_cities.sort(key=lambda x: x[0], reverse=True)
RECURSIVE SortByScore(_)
SortByScore(scored) ==
    IF scored = <<>> THEN <<>>
    ELSE InsertSorted(SortByScore(SubSeq(scored, 1, Len(scored) - 1)),
                      scored[Len(scored)])

\* scored_cities[:limit]
Take(scored, limit) ==
    IF limit >= 0
        THEN SubSeq(scored, 1, IF limit < Len(scored) THEN limit ELSE Len(scored))
        ELSE SubSeq(scored, 1, Len(scored) + limit)

\* find_best_matches(query, limit)
find_best_matches(file, query, limit) ==
    LET cities_db == load_cities_database(file)
        top == Take(SortByScore(ScoredCities(cities_db, query)), limit)
        kept == SelectSeq(top, LAMBDA p : AboveThreshold(p.score))
    IN  IF cities_db = <<>> THEN <<>>
        ELSE [i \in 1..Len(kept) |-> kept[i].city]

\* ------------------------------------------------------------------ inputs

Cities == {<<"a">>, <<"A">>, <<"a", "b">>, <<"b">>}
States == {<<"s">>, <<"S">>}
Countries == {<<"c">>}
Queries == {<<>>, <<"a">>, <<"A", "b">>, <<"s">>, <<"z">>, <<"a", "s">>,
            <<"b", "s">>, <<",", " ", "s">>}
Limits == (0 - 1)..MaxLimit

\* the catalog bulk-populate leaves behind when it ran
SeedCatalog == <<CityEntry(<<"a">>, <<"s">>, <<"c">>)>>

\* ------------------------------------------------------------------ catalog and matcher calls

\* add_city_to_database(city, state, country)
AddCity ==
    \E city \in Cities, state \in States, country \in Countries :
        /\ \/ Exists(load_cities_database(db_file), city, state, country)
           \/ Len(load_cities_database(db_file)) < MaxCatalog
        /\ db_file' = AddedFile(db_file, city, state, country)
        /\ ret' = [op |-> "add_city_to_database", city |-> city, state |-> state,
                   country |-> country, before |-> db_file]
        /\ UNCHANGED <<fetch, handler>>

\* find_best_matches(query, limit)
FindBestMatches ==
    \E query \in Queries, limit \in Limits :
        /\ ret' = [op |-> "find_best_matches", query |-> query, limit |-> limit,
                   result |-> find_best_matches(db_file, query, limit)]
        /\ UNCHANGED <<db_file, fetch, handler>>

\* GET /api/autocomplete
Autocomplete ==
    \E query \in Queries :
        /\ ret' = [op |-> "autocomplete", query |-> query,
                   suggestions |-> IF Len(query) < 3 THEN <<>>
                                   ELSE find_best_matches(db_file, query, 5)]
        /\ UNCHANGED <<db_file, fetch, handler>>

NoCall == [op |-> "none"]
IdleFetch == [pc |-> "idle"]
IdleHandler == [pc |-> "idle"]

\* after start-up, no request yet
InitWith(files) ==
    /\ db_file \in files
    /\ ret = NoCall
    /\ fetch = IdleFetch
    /\ handler = IdleHandler

\* populate_initial_database has run: it left no file, or one it could not
\* fill, or the catalog; or the file there does not decode
Init ==
    InitWith({[state |-> "missing", records |-> <<>>],
              [state |-> "corrupt", records |-> <<>>],
              [state |-> "json", records |-> <<>>],
              [state |-> "json", records |-> SeedCatalog]})

\* start-up with the catalog populated
InitPopulated == InitWith({[state |-> "json", records |-> SeedCatalog]})

NextCatalog == AddCity \/ FindBestMatches \/ Autocomplete

SpecCatalog == Init /\ [][NextCatalog]_vars

\* ------------------------------------------------------------------ daily AQI reconciliation

\* Python's None where a number is expected (an absent "aqius")
NoneVal == -1

Dates == {1, 2}

\* timestamp_str.split("T")[0]: the date part of a timestamp
DatePart(ts) == ts.date

Min(a, b) == IF a < b THEN a ELSE b

\* round(sum / count): to the nearest integer, a tie to the even one
RoundHalfEven(sum, count) ==
    LET q == sum \div count
        r == sum % count
    IN  IF 2 * r < count THEN q
        ELSE IF 2 * r > count THEN q + 1
        ELSE IF q % 2 = 0 THEN q ELSE q + 1

\* sum of aqius[i] over the readings i of a date
RECURSIVE SumOver(_, _)
SumOver(aqius, idx) ==
    IF idx = {} THEN 0
    ELSE LET i == CHOOSE k \in idx : TRUE
         IN  aqius[i] + SumOver(aqius, idx \ {i})

\* sorted(dates): ascending
RECURSIVE Sorted(_)
Sorted(dates) ==
    IF dates = {} THEN <<>>
    ELSE LET d == CHOOSE x \in dates : \A y \in dates : x <= y
         IN  <<d>> \o Sorted(dates \ {d})

\* calculate_daily_history_averages(history_data)
calculate_daily_history_averages(history_data) ==
    IF ~history_data.present THEN <<>>
    ELSE IF history_data.aqius = <<>> THEN <<>>
    ELSE
        LET n == Min(Len(history_data.ts), Len(history_data.aqius))
            readings(d) == {i \in 1..n : DatePart(history_data.ts[i]) = d}
            days == Sorted({DatePart(history_data.ts[i]) : i \in 1..n})
        IN  [k \in 1..Len(days) |->
                [date |-> days[k],
                 label |-> <<"Avg. AQI", days[k]>>,
                 aqi |-> RoundHalfEven(SumOver(history_data.aqius, readings(days[k])),
                                       Cardinality(readings(days[k])))]]

\* calculate_daily_forecast_aqi(forecast_data)
calculate_daily_forecast_aqi(forecast_data) ==
    IF ~forecast_data.present THEN <<>>
    ELSE [k \in 1..Len(forecast_data.daily) |->
            [date |-> DatePart(forecast_data.daily[k].ts),
             label |-> <<"Forecast AQI", DatePart(forecast_data.daily[k].ts)>>,
             aqi |-> forecast_data.daily[k].aqius]]

\* all_daily_aqi[item['date']] = item
Put(all_daily_aqi, item) ==
    [d \in DOMAIN all_daily_aqi \cup {item.date} |->
        IF d = item.date THEN item ELSE all_daily_aqi[d]]

\* step 4b with the `not in all_daily_aqi` test left out
AddForecastAlways(all_daily_aqi, item) == Put(all_daily_aqi, item)

\* step 4b: a forecast item enters only when its date is not there yet
AddForecast(all_daily_aqi, item) ==
    IF item.date \notin DOMAIN all_daily_aqi
        THEN Put(all_daily_aqi, item)
        ELSE all_daily_aqi

\* the two `for item in ...` loops of steps 4a and 4b
RECURSIVE PutAll(_, _)
PutAll(all_daily_aqi, items) ==
    IF items = <<>> THEN all_daily_aqi
    ELSE PutAll(Put(all_daily_aqi, Head(items)), Tail(items))

RECURSIVE AddForecasts(_, _)
AddForecasts(all_daily_aqi, items) ==
    IF items = <<>> THEN all_daily_aqi
    ELSE AddForecasts(AddForecast(all_daily_aqi, Head(items)), Tail(items))

\* `if aqi_us:` instead of `if aqi_us is not None:`
CurrentPresentTruthy(aqi_us) == aqi_us # NoneVal /\ aqi_us # 0

\* step 4c: `if aqi_us is not None`
CurrentPresent(aqi_us) == aqi_us # NoneVal

\* steps 4a-4c and the final sort: daily_aqi_summary
DailyAqiSummary(history_averages, forecast_aqis, aqi_us, current_date) ==
    LET empty == [d \in {} |-> d]
        merged == AddForecasts(PutAll(empty, history_averages), forecast_aqis)
        all_daily_aqi ==
            IF CurrentPresent(aqi_us)
                THEN Put(merged, [date |-> current_date,
                                  label |-> <<"Current AQI">>,
                                  aqi |-> aqi_us])
                ELSE merged
        days == Sorted(DOMAIN all_daily_aqi)
    IN  [k \in 1..Len(days) |-> all_daily_aqi[days[k]]]

\* ------------------------------------------------------------------ get_air_quality_data

ErrRequest == "API Request Error"
ErrHTTP == "API HTTP Error"
ErrUnexpected == "An unexpected error occurred"
ErrRateLimit == "Failed to retrieve data after max_retries attempts due to rate limiting."
ErrNotAvailable == "City data not available. Status: 200"

Failure(error) == [success |-> FALSE, error |-> error]

\* the dict returned on success (lines 286-343)
SuccessResult(f, city_data, current_date) ==
    [success |-> TRUE,
     city |-> f.city,
     country |-> f.country,
     state |-> f.state,
     aqi_us |-> city_data.aqius,
     main_pollutant |-> city_data.mainus,
     weather |-> city_data.weather,
     daily_aqi_summary |->
        DailyAqiSummary(calculate_daily_history_averages(city_data.history),
                        calculate_daily_forecast_aqi(city_data.forecast),
                        city_data.aqius, current_date)]

\* what one upstream answer is, for the retry law
Class(o) ==
    IF o.kind = "connection_error" THEN "network_error"
    ELSE IF o.status_code = 429 THEN "429"
    ELSE IF o.raises THEN "http_error"
    ELSE IF o.body.kind = "dict" /\ o.body.status = "success" /\ o.body.has_data
        THEN "success"
    ELSE IF o.body.kind = "dict" /\ o.body.status # "success" THEN "not_success"
    ELSE "malformed"

\* the locals of a call that has just started
StartFetch(city, state, country, max_retries, initial_delay) ==
    [pc |-> "loop", city |-> city, state |-> state, country |-> country,
     max_retries |-> max_retries, initial_delay |-> initial_delay,
     first_delay |-> initial_delay, attempt |-> 0,
     sleeps |-> <<>>, requests |-> 0, responses |-> <<>>,
     response |-> [kind |-> "none"], current_date |-> 0,
     result |-> [success |-> FALSE, error |-> ""]]

\* `return result`
Return(f, result) == [f EXCEPT !.pc = "returned", !.result = result]

\* the rate-limit branch with the doubling left out
RateLimitedFixedDelay(f) ==
    [f EXCEPT !.sleeps = Append(@, f.initial_delay),
              !.attempt = @ + 1]

\* time.sleep(initial_delay); initial_delay *= 2; continue
RateLimited(f) ==
    [f EXCEPT !.sleeps = Append(@, f.initial_delay),
              !.initial_delay = 2 * @,
              !.attempt = @ + 1]

\* an HTTPError handler that retries whatever the status
AfterHTTPErrorAlwaysRetry(f, o) == RateLimited(f)

\* except requests.exceptions.HTTPError (lines 353-360)
AfterHTTPError(f, o) ==
    IF o.status_code = 429 THEN RateLimited(f)
    ELSE Return(f, Failure(ErrHTTP))

\* response.json() and the if / elif / else on it (lines 284-351, 361-364)
AfterBody(f, o, current_date) ==
    LET data == o.body IN
    IF data.kind = "not_json"
        THEN Return(f, Failure(IF data.raised = "RequestException"
                                   THEN ErrRequest ELSE ErrUnexpected))
    ELSE IF data.kind = "list"
        THEN Return(f, Failure(ErrUnexpected))
    ELSE IF data.kind = "dict" /\ data.status = "success"
        THEN IF data.has_data
                THEN Return([f EXCEPT !.current_date = current_date],
                            SuccessResult(f, data.data, current_date))
                ELSE Return(f, Failure(ErrUnexpected))
    ELSE IF o.status_code = 429
        THEN RateLimited(f)
    ELSE IF data.kind = "null"
        THEN Return(f, Failure(ErrUnexpected))
    ELSE Return(f, Failure(IF data.has_message THEN data.message
                                                ELSE ErrNotAvailable))

\* one pass through the loop body: the request and what follows it
AfterResponse(f, o, current_date) ==
    LET g == [f EXCEPT !.requests = @ + 1,
                       !.responses = Append(@, Class(o)),
                       !.response = o]
    IN  IF o.kind = "connection_error" THEN Return(g, Failure(ErrRequest))
        ELSE IF o.raises THEN AfterHTTPError(g, o)
        ELSE AfterBody(g, o, current_date)

\* range(max_retries + 1)
LoopContinuesOneMore(f) == f.attempt <= f.max_retries

\* for attempt in range(max_retries)
LoopContinues(f) == f.attempt < f.max_retries

\* ------------------------------------------------------------------ upstream answers

SeqsUpTo(S, n) == UNION {[1..k -> S] : k \in 0..n}

Timestamps == {[date |-> d, clock |-> 6] : d \in Dates}

NoHistory == [present |-> FALSE, ts |-> <<>>, aqius |-> <<>>]
NoForecast == [present |-> FALSE, daily |-> <<>>]

Histories ==
    {NoHistory} \cup
    {[present |-> TRUE, ts |-> t, aqius |-> a] :
        t \in SeqsUpTo(Timestamps, MaxHistory), a \in SeqsUpTo({10, 11}, MaxHistory)}

Forecasts ==
    {NoForecast} \cup
    {[present |-> TRUE, daily |-> d] :
        d \in SeqsUpTo([ts : Timestamps, aqius : {NoneVal, 30}], MaxForecast)}

\* data["data"] of a success payload
CityData(aqius, history, forecast) ==
    [aqius |-> aqius, mainus |-> "p2", weather |-> "w",
     history |-> history, forecast |-> forecast]

RichCityData ==
    {CityData(a, h, f) : a \in {NoneVal, 0, 20}, h \in Histories, f \in Forecasts}

SmallCityData ==
    {CityData(a, h, NoForecast) :
        a \in {NoneVal, 20, 55},
        h \in {NoHistory,
               [present |-> TRUE,
                ts |-> <<[date |-> 1, clock |-> 6], [date |-> 1, clock |-> 6]>>,
                aqius |-> <<10, 11>>]}}

RateLimitBody ==
    [kind |-> "dict", status |-> "fail", has_message |-> TRUE,
     message |-> "call_limit_reached"]

\* what response.json() may give (or raise)
Bodies(Data) ==
    {[kind |-> "not_json", raised |-> r] : r \in {"RequestException", "ValueError"}}
    \cup {[kind |-> "null"], [kind |-> "list"]}
    \cup {[kind |-> "dict", status |-> "fail", has_message |-> TRUE,
           message |-> "city_not_found"],
          [kind |-> "dict", status |-> "fail", has_message |-> FALSE, message |-> ""],
          RateLimitBody}
    \cup {[kind |-> "dict", status |-> "success", has_data |-> FALSE]}
    \cup {[kind |-> "dict", status |-> "success", has_data |-> TRUE, data |-> cd] :
            cd \in Data}

\* what requests.get and raise_for_status of the requests library give: a
\* RequestException, or a response whose raise_for_status raises for 4xx / 5xx
LibraryOutcomes(Data) ==
    {[kind |-> "connection_error"]}
    \cup {[kind |-> "response", status_code |-> sc, raises |-> TRUE,
           body |-> RateLimitBody] : sc \in {429, 404, 500}}
    \cup {[kind |-> "response", status_code |-> 200, raises |-> FALSE, body |-> b] :
            b \in Bodies(Data)}

\* a response object with status 429 whose raise_for_status does not raise:
\* the case the `elif response.status_code == 429` branch is written for
UnraisedRateLimits(Data) ==
    {[kind |-> "response", status_code |-> 429, raises |-> FALSE, body |-> b] :
        b \in Bodies(Data)}

\* ------------------------------------------------------------------ fetch steps

DefaultMaxRetries == 3
DefaultInitialDelay == 1

Finished(h) == h.pc \in {"idle", "done", "crashed"}

\* a direct call get_air_quality_data(city, state, country, max_retries, initial_delay)
GetAirQualityData(CityArgs, Retries, Delays) ==
    /\ Finished(handler)
    /\ fetch.pc # "loop"
    /\ \E city \in CityArgs, max_retries \in Retries, initial_delay \in Delays :
        fetch' = StartFetch(city, <<"s">>, <<"c">>, max_retries, initial_delay)
    /\ handler' = IdleHandler
    /\ UNCHANGED <<db_file, ret>>

\* one iteration of the retry loop
Attempt(Outcomes) ==
    /\ fetch.pc = "loop"
    /\ LoopContinues(fetch)
    /\ \E o \in Outcomes, current_date \in Dates :
        fetch' = AfterResponse(fetch, o, current_date)
    /\ UNCHANGED <<db_file, ret, handler>>

\* the return behind the loop (lines 366-367)
Exhausted ==
    /\ fetch.pc = "loop"
    /\ ~LoopContinues(fetch)
    /\ fetch' = Return(fetch, Failure(ErrRateLimit))
    /\ UNCHANGED <<db_file, ret, handler>>

\* ------------------------------------------------------------------ handlers

\* a request parameter: <<>> stands for a missing or empty one
ParamCities == {<<>>, <<"a">>, <<"b">>}

\* GET /api/city_resume, up to the call of get_air_quality_data
CityResume ==
    /\ Finished(handler)
    /\ fetch.pc # "loop"
    /\ \E city \in ParamCities, state \in {<<"s">>}, country \in {<<"c">>} :
        IF city = <<>> \/ state = <<>> \/ country = <<>>
            THEN /\ handler' = [pc |-> "done", route |-> "city_resume", status |-> 400,
                                response |-> Failure("City, state, and country are required.")]
                 /\ fetch' = IdleFetch
            ELSE /\ handler' = [pc |-> "fetching", route |-> "city_resume",
                                city |-> city, state |-> state, country |-> country]
                 /\ fetch' = StartFetch(city, state, country,
                                        DefaultMaxRetries, DefaultInitialDelay)
    /\ UNCHANGED <<db_file, ret>>

\* city_resume: return jsonify(data)
CityResumeRespond ==
    /\ handler.pc = "fetching"
    /\ fetch.pc = "returned"
    /\ handler' = [pc |-> "done", route |-> "city_resume", status |-> 200,
                   city |-> handler.city, state |-> handler.state,
                   country |-> handler.country, response |-> fetch.result]
    /\ fetch' = IdleFetch
    /\ UNCHANGED <<db_file, ret>>

\* GET /api/compare_cities, up to the first call of get_air_quality_data
CompareCities ==
    /\ Finished(handler)
    /\ fetch.pc # "loop"
    /\ \E c1_city \in ParamCities, c2_city \in ParamCities :
        IF c1_city = <<>> \/ c2_city = <<>>
            THEN /\ handler' = [pc |-> "done", route |-> "compare_cities", status |-> 400,
                                response |-> Failure("All city, state, and country fields for both cities are required.")]
                 /\ fetch' = IdleFetch
            ELSE /\ handler' = [pc |-> "fetching1", route |-> "compare_cities",
                                c1_city |-> c1_city, c2_city |-> c2_city]
                 /\ fetch' = StartFetch(c1_city, <<"s">>, <<"c">>,
                                        DefaultMaxRetries, DefaultInitialDelay)
    /\ UNCHANGED <<db_file, ret>>

\* compare_cities: data1 is there, the second call starts
CompareSecondFetch ==
    /\ handler.pc = "fetching1"
    /\ fetch.pc = "returned"
    /\ handler' = [pc |-> "fetching2", route |-> "compare_cities",
                   c1_city |-> handler.c1_city, c2_city |-> handler.c2_city,
                   data1 |-> fetch.result]
    /\ fetch' = StartFetch(handler.c2_city, <<"s">>, <<"c">>,
                           DefaultMaxRetries, DefaultInitialDelay)
    /\ UNCHANGED <<db_file, ret>>

\* the conclusion of compare_cities (lines 421-431); "aqi_us" is a key of
\* every success result, so the 9999 default of .get never applies
Conclusion(c1_city, c2_city, aqi1, aqi2) ==
    IF aqi1 < aqi2 THEN <<"better", c1_city, c2_city>>
    ELSE IF aqi1 > aqi2 THEN <<"better", c2_city, c1_city>>
    ELSE <<"same", aqi1>>

\* compare_cities: data2 is there, the conclusion and the response.  `<`
\* between None and a number (or None) raises TypeError, which nothing catches
CompareRespond ==
    /\ handler.pc = "fetching2"
    /\ fetch.pc = "returned"
    /\ LET data1 == handler.data1
           data2 == fetch.result
       IN  IF data1.success /\ data2.success
            THEN IF data1.aqi_us = NoneVal \/ data2.aqi_us = NoneVal
                    THEN handler' = [pc |-> "crashed", route |-> "compare_cities",
                                     raised |-> "TypeError",
                                     city1 |-> data1, city2 |-> data2]
                    ELSE handler' = [pc |-> "done", route |-> "compare_cities",
                                     status |-> 200,
                                     response |->
                                        [city1 |-> data1, city2 |-> data2,
                                         conclusion |->
                                            Conclusion(handler.c1_city, handler.c2_city,
                                                       data1.aqi_us, data2.aqi_us)]]
            ELSE handler' = [pc |-> "done", route |-> "compare_cities", status |-> 200,
                             response |-> [city1 |-> data1, city2 |-> data2]]
    /\ fetch' = IdleFetch
    /\ UNCHANGED <<db_file, ret>>

\* ------------------------------------------------------------------ specifications

\* the handlers and direct calls, upstream answers as the requests library gives them
Call == GetAirQualityData({<<"a">>, <<"b">>}, 0..MaxRetriesArg, {1, 2, 3})
\* the answers a request may get
LibraryAnswers == LibraryOutcomes(SmallCityData)
Request == Attempt(LibraryAnswers)

Next ==
    \/ Call
    \/ Request
    \/ Exhausted
    \/ CityResume
    \/ CityResumeRespond
    \/ CompareCities
    \/ CompareSecondFetch
    \/ CompareRespond

Spec == Init /\ [][Next]_vars

\* a started call runs on: every request is answered, the loop goes on
FairSpec == Spec /\ WF_vars(Request) /\ WF_vars(Exhausted)

\* one call with every shape of history, forecast and current reading
CallOnce == GetAirQualityData({<<"a">>}, {1}, {DefaultInitialDelay})
RichAnswers ==
    {o \in LibraryOutcomes(RichCityData) : Class(o) \in {"429", "success"}}
RequestRich == Attempt(RichAnswers)

NextReconcile == CallOnce \/ RequestRich \/ Exhausted

SpecReconcile == InitPopulated /\ [][NextReconcile]_vars

\* calls whose 429 answers come either way: raised by raise_for_status or not
CallDefault ==
    GetAirQualityData({<<"a">>, <<"b">>}, {DefaultMaxRetries}, {DefaultInitialDelay})
AnyAnswers ==
    LibraryOutcomes(SmallCityData) \cup UnraisedRateLimits(SmallCityData)
RequestAny == Attempt(AnyAnswers)

NextAnyResponse == CallDefault \/ RequestAny \/ Exhausted

SpecAnyResponse == InitPopulated /\ [][NextAnyResponse]_vars

\* ------------------------------------------------------------------ claims: catalog

\* the uniqueness key of a record: its case-insensitive (city, state, country)
KeyOf(city, state, country) == <<Lower(city), Lower(state), Lower(country)>>
RecordKey(r) == KeyOf(r.city, r.state, r.country)
MatchingRecords(cities_db, key) ==
    {i \in 1..Len(cities_db) : RecordKey(cities_db[i]) = key}

\* C8: add_city_to_database keeps the catalog free of records with the same
\* case-insensitive (city, state, country); after a call exactly one record
\* matches the arguments (so a second call with the same or case-variant
\* arguments adds nothing), and a call for a triple already present leaves the
\* stored file as it was.
C8_AddIfAbsentIdempotent ==
    LET cities_db == load_cities_database(db_file) IN
    /\ \A i, j \in 1..Len(cities_db) :
            RecordKey(cities_db[i]) = RecordKey(cities_db[j]) => i = j
    /\ ret.op = "add_city_to_database" =>
        LET key == KeyOf(ret.city, ret.state, ret.country)
            before == load_cities_database(ret.before)
        IN  /\ Cardinality(MatchingRecords(cities_db, key)) = 1
            /\ MatchingRecords(before, key) # {} => db_file = ret.before
            /\ MatchingRecords(before, key) = {} =>
                    cities_db = Append(before, CityEntry(ret.city, ret.state, ret.country))

\* C8 witness: a second call with case-variant arguments for a stored triple,
\* on a catalog that holds another city as well
C8_Witness ==
    /\ ret.op = "add_city_to_database"
    /\ Len(load_cities_database(db_file)) >= 2
    /\ \E i \in 1..Len(load_cities_database(ret.before)) :
        LET r == load_cities_database(ret.before)[i] IN
        /\ RecordKey(r) = KeyOf(ret.city, ret.state, ret.country)
        /\ <<r.city, r.state>> # <<ret.city, ret.state>>

\* ------------------------------------------------------------------ claims: matcher

\* position of a returned record in the catalog (catalog records are distinct)
IndexIn(cities_db, r) == CHOOSE i \in 1..Len(cities_db) : cities_db[i] = r

\* C10: for limit >= 0 find_best_matches returns at most limit catalog records,
\* by score descending with equal scores in catalog order, none with a score
\* <= 0.3, and leaves out a record scoring > 0.3 only when limit records with
\* scores at least as high are returned.
C10_BestMatches ==
    (ret.op = "find_best_matches" /\ ret.limit >= 0) =>
        LET cities_db == load_cities_database(db_file)
            result == ret.result
            sc(r) == Score(ret.query, r)
        IN  /\ Len(result) <= ret.limit
            /\ \A i \in 1..Len(result) :
                    /\ \E k \in 1..Len(cities_db) : cities_db[k] = result[i]
                    /\ AboveThreshold(sc(result[i]))
            /\ \A i, j \in 1..Len(result) :
                    i < j =>
                        /\ ~ScoreLess(sc(result[i]), sc(result[j]))
                        /\ IndexIn(cities_db, result[i]) # IndexIn(cities_db, result[j])
                        /\ ScoreEq(sc(result[i]), sc(result[j])) =>
                                IndexIn(cities_db, result[i]) < IndexIn(cities_db, result[j])
            /\ \A k \in 1..Len(cities_db) :
                    (/\ AboveThreshold(sc(cities_db[k]))
                     /\ \A i \in 1..Len(result) : result[i] # cities_db[k])
                    => /\ Len(result) = ret.limit
                       /\ \A i \in 1..Len(result) :
                                ~ScoreLess(sc(result[i]), sc(cities_db[k]))

\* C10 witness: a call whose result is cut by limit, holds two records of
\* different scores, and whose catalog also holds a record scoring <= 0.3
C10_Witness ==
    /\ ret.op = "find_best_matches"
    /\ ret.limit = 2
    /\ Len(ret.result) = 2
    /\ ScoreLess(Score(ret.query, ret.result[2]), Score(ret.query, ret.result[1]))
    /\ Len(load_cities_database(db_file)) = 3
    /\ IndexIn(load_cities_database(db_file), ret.result[1])
            > IndexIn(load_cities_database(db_file), ret.result[2])

\* a query that scores <= 0.3 against every record, and the empty result it gets
C10_WitnessBelowThreshold ==
    /\ ret.op = "find_best_matches"
    /\ ret.limit > 0
    /\ Len(load_cities_database(db_file)) >= 2
    /\ ret.result = <<>>

\* ------------------------------------------------------------------ claims: retry

RECURSIVE Pow2(_)
Pow2(n) == IF n = 0 THEN 1 ELSE 2 * Pow2(n - 1)

Running == fetch.pc \in {"loop", "returned"}

\* the first k answers were all HTTP 429
RateLimitedTimes(k) ==
    /\ k <= Len(fetch.responses)
    /\ \A i \in 1..k : fetch.responses[i] = "429"

\* C1: k < max_retries answers of HTTP 429 and then a success payload: the call
\* returns a success result after exactly k + 1 requests and exactly k sleeps,
\* of initial_delay, 2 * initial_delay, ..., 2^(k-1) * initial_delay, in that
\* order.
C1_RetryLaw ==
    fetch.pc = "returned" =>
        \A k \in 0..(fetch.max_retries - 1) :
            (/\ Len(fetch.responses) = k + 1
             /\ RateLimitedTimes(k)
             /\ fetch.responses[k + 1] = "success")
            => /\ fetch.result.success
               /\ fetch.requests = k + 1
               /\ fetch.sleeps = [i \in 1..k |-> Pow2(i - 1) * fetch.first_delay]

\* C1 witness: max_retries = 4, initial_delay = 3, three 429 and a success
C1_Witness ==
    /\ fetch.pc = "returned"
    /\ fetch.max_retries = 4
    /\ fetch.first_delay = 3
    /\ fetch.responses = <<"429", "429", "429", "success">>
    /\ fetch.sleeps = <<3, 6, 12>>
    /\ fetch.result.success

\* C2: an answer that is neither HTTP 429 nor a success ends the call at once
\* with {success: false, error}: it is the last answer, the call has returned,
\* and no request and no sleep came after it (every sleep follows a 429).
C2_FailsWithoutRetry ==
    Running =>
        \A i \in 1..Len(fetch.responses) :
            fetch.responses[i] \notin {"429", "success"} =>
                /\ i = Len(fetch.responses)
                /\ fetch.pc = "returned"
                /\ fetch.result.success = FALSE
                /\ fetch.result.error # ""
                /\ fetch.requests = i
                /\ Len(fetch.sleeps) = i - 1
                /\ RateLimitedTimes(i - 1)

\* C2 witness: a 429, then an HTTP error of another status
C2_Witness ==
    /\ fetch.pc = "returned"
    /\ fetch.responses = <<"429", "http_error">>
    /\ fetch.sleeps = <<1>>
    /\ fetch.result = Failure(ErrHTTP)

\* C3: a call issues at most max_retries requests and returns; when all
\* max_retries answers are HTTP 429 it returns the rate-limit failure, never
\* a success.
C3_BoundedRetries ==
    /\ [](Running => fetch.requests <= fetch.max_retries)
    /\ []((/\ fetch.pc = "returned"
           /\ Len(fetch.responses) = fetch.max_retries
           /\ RateLimitedTimes(fetch.max_retries))
          => fetch.result = Failure(ErrRateLimit))
    /\ (fetch.pc = "loop" ~> fetch.pc = "returned")

\* C3 witness: three attempts, three 429, the rate-limit failure
C3_Witness ==
    /\ fetch.pc = "returned"
    /\ fetch.max_retries = 3
    /\ fetch.responses = <<"429", "429", "429">>
    /\ fetch.requests = 3
    /\ fetch.result = Failure(ErrRateLimit)

\* the 429 answers a call on the requests library gets and one whose
\* raise_for_status lets it through, with some body
Raised429 ==
    [kind |-> "response", status_code |-> 429, raises |-> TRUE, body |-> RateLimitBody]
Unraised429(b) ==
    [kind |-> "response", status_code |-> 429, raises |-> FALSE, body |-> b]

\* what of a call the caller and the upstream can observe
Observable(f) ==
    <<f.pc, f.attempt, f.initial_delay, f.sleeps, f.requests, f.result>>

\* C9: at every attempt a 429 that raise_for_status lets through is handled as
\* a raised one is, whatever body it carries: same sleep, same doubling, same
\* next attempt, same result.
C9_BothPathsRetryIdentically ==
    [][(/\ fetch.pc = "loop"
        /\ fetch'.pc \in {"loop", "returned"}
        /\ fetch'.requests = fetch.requests + 1
        /\ fetch'.response.kind = "response"
        /\ fetch'.response.status_code = 429
        /\ ~fetch'.response.raises)
       => Observable(fetch')
            = Observable(AfterResponse(fetch, Raised429, fetch'.current_date))]_vars

\* the bodies for which the two paths do agree
FailureBodies ==
    {x \in Bodies(SmallCityData) :
        x.kind = "null" \/ (x.kind = "dict" /\ x.status # "success")}

C9_AgreeOnFailureBodies ==
    (fetch.pc = "loop" /\ LoopContinues(fetch)) =>
        \A b \in FailureBodies, d \in Dates :
            Observable(AfterResponse(fetch, Unraised429(b), d))
                = Observable(AfterResponse(fetch, Raised429, d))

\* ------------------------------------------------------------------ claims: reconciliation

Payload == fetch.response.body.data
Succeeded == fetch.pc = "returned" /\ fetch.result.success
Summary == fetch.result.daily_aqi_summary
EntriesFor(d) == {k \in 1..Len(Summary) : Summary[k].date = d}

\* C4: with a current reading X the summary has exactly one entry for the
\* current UTC date, with value X and label "Current AQI", whatever history
\* and forecast hold for that date.
C4_CurrentOverrides ==
    (Succeeded /\ Payload.aqius # NoneVal) =>
        /\ Cardinality(EntriesFor(fetch.current_date)) = 1
        /\ \A k \in EntriesFor(fetch.current_date) :
                /\ Summary[k].aqi = Payload.aqius
                /\ Summary[k].label = <<"Current AQI">>

\* the dates the history and the forecast of the payload speak of
HistoryEntries == calculate_daily_history_averages(Payload.history)
ForecastEntries == calculate_daily_forecast_aqi(Payload.forecast)
HistoryDates == {HistoryEntries[k].date : k \in 1..Len(HistoryEntries)}
ForecastDates == {ForecastEntries[k].date : k \in 1..Len(ForecastEntries)}
HistoryEntry(d) ==
    HistoryEntries[CHOOSE k \in 1..Len(HistoryEntries) : HistoryEntries[k].date = d]
FirstForecast(d) ==
    ForecastEntries[CHOOSE k \in 1..Len(ForecastEntries) :
                        /\ ForecastEntries[k].date = d
                        /\ \A j \in 1..(k - 1) : ForecastEntries[j].date # d]

\* C4 witness: a current reading of 0 on a date for which the history has
\* another average and the forecast a value
C4_Witness ==
    /\ Succeeded
    /\ Payload.aqius = 0
    /\ fetch.current_date \in HistoryDates \cap ForecastDates
    /\ HistoryEntry(fetch.current_date).aqi = 10
    /\ Len(Summary) = 2

\* C5 as stated: every forecast date absent from the history shows a forecast
\* value with the label "Forecast AQI (<date>)", every date in both shows the
\* history average with the label "Avg. AQI (<date>)".
C5_MergePriority ==
    Succeeded =>
        \A d \in ForecastDates :
            \E k \in EntriesFor(d) :
                IF d \in HistoryDates
                    THEN Summary[k] = HistoryEntry(d)
                    ELSE /\ Summary[k].label = <<"Forecast AQI", d>>
                         /\ \E j \in 1..Len(ForecastEntries) :
                                Summary[k] = ForecastEntries[j]

\* C5 amended: the same for every forecast date except the current UTC date
\* when there is a current reading (that date shows "Current AQI"); of several
\* forecast entries for one date the first one shows.
C5_MergePriorityButCurrent ==
    Succeeded =>
        \A d \in ForecastDates :
            /\ Cardinality(EntriesFor(d)) = 1
            /\ \A k \in EntriesFor(d) :
                IF Payload.aqius # NoneVal /\ d = fetch.current_date
                    THEN Summary[k].label = <<"Current AQI">>
                ELSE IF d \in HistoryDates
                    THEN /\ Summary[k] = HistoryEntry(d)
                         /\ Summary[k].label = <<"Avg. AQI", d>>
                ELSE /\ Summary[k] = FirstForecast(d)
                     /\ Summary[k].label = <<"Forecast AQI", d>>

\* C5 witness: a current reading; the current date is in the forecast only,
\* the other date in history and forecast, with different values
C5_Witness ==
    /\ Succeeded
    /\ Payload.aqius = 20
    /\ fetch.current_date \in ForecastDates \ HistoryDates
    /\ \E d \in (HistoryDates \cap ForecastDates) \ {fetch.current_date} :
            /\ FirstForecast(d).aqi = 30
            /\ HistoryEntry(d).aqi = 10
            /\ Cardinality({i \in 1..Len(Payload.history.ts) :
                                DatePart(Payload.history.ts[i]) = d}) = 2

\* ------------------------------------------------------------------ claims: handlers

\* C6: every request to /api/city_resume and /api/compare_cities ends with a
\* JSON response, a failure as {success: false, error}; no exception leaves a
\* handler.
C6_NoUnhandledFault ==
    /\ handler.pc # "crashed"
    /\ (handler.pc = "done" /\ handler.route = "city_resume"
            /\ ~handler.response.success)
        => handler.response.error # ""

\* what does hold: get_air_quality_data itself never lets an exception out,
\* every answer leads to a result with success and, on failure, an error
C6_FetchAlwaysReturnsResult ==
    fetch.pc = "returned" =>
        \/ fetch.result.success
        \/ fetch.result.error # ""

\* C7: after a city_resume request whose lookup succeeded the catalog holds a
\* record for that (city, state, country).
C7_RecordOnFirstSuccess ==
    (/\ handler.pc = "done"
     /\ handler.route = "city_resume"
     /\ handler.status = 200
     /\ handler.response.success)
    => MatchingRecords(load_cities_database(db_file),
                       KeyOf(handler.city, handler.state, handler.country)) # {}

\* the other half of C7: no step updates or deletes a stored record
C7_NeverUpdatedOrDeleted ==
    [][LET before == load_cities_database(db_file)
           after == load_cities_database(db_file')
       IN  /\ Len(before) <= Len(after)
           /\ SubSeq(after, 1, Len(before)) = before]_vars

====
